---------------------------- MODULE Spec2Model ----------------------------
(***************************************************************************)
(* PDF-Wizard: the size-targeted compression loop (engine/compressor.py),  *)
(* the JPEG quality search (engine/image_processor.py resize_image), the   *)
(* parallel blank-page scan (engine/academic.py remove_blank_pages) and    *)
(* the parallel page rasterizer (engine/image_processor.py pdf_to_images). *)
(*                                                                         *)
(* Each operation is one state machine with its own record variable and    *)
(* its own specification; the other records stay idle in it.  Further      *)
(* machines: the pixel loop of _scan_page_brightness (px), the parallel    *)
(* batch_image_resize (bt), the `compress` command of the CLI (cl) and the *)
(* metadata panel of the GUI (mp).                                         *)
(***************************************************************************)
EXTENDS Integers, Sequences, FiniteSets, TLC

VARIABLES cp, rz, sc, ex, px, bt, cl, mp

vars == <<cp, rz, sc, ex, px, bt, cl, mp>>

Min(a, b) == IF a <= b THEN a ELSE b

Max(a, b) == IF a >= b THEN a ELSE b

(***************************************************************************)
(* Bounds of the model.                                                    *)
(***************************************************************************)
\* largest max_iterations handed to compress_pdf
MaxIter == 3

\* file sizes range over 19 .. 19 + SizeSpan (units of target_size_mb / 20),
\* so that sizes lie below, inside and above the 5% tolerance of a target
SizeSpan == 4

Sizes == 19 .. (19 + SizeSpan)

Targets == {20, 21}

Qualities == {"high", "medium", "low", "other"}


\* largest max_iterations handed to resize_image: the default, 10 (a search
\* over 5..95 never needs more than 7 probes)
MaxResizeIter == 10

\* encoded image sizes range over 1 .. MaxImgSize
MaxImgSize == 3

ImgSizes == 1 .. MaxImgSize

ImgTargets == {1, 2}


\* largest page count of a document handed to remove_blank_pages
MaxScanPages == 4

\* largest os.cpu_count() (the size of the process pool)
MaxCores == 2


\* largest page count of a document handed to pdf_to_images
MaxExtractPages == 5

\* largest number of pages of one document whose rendering raises
MaxBroken == 1

(***************************************************************************)
(* compress_pdf (engine/compressor.py)                                     *)
(***************************************************************************)
\* the output path before the invocation has written to it
NoFile == [content |-> "none", size |-> 0]

NoRet == <<"running">>

\* settings = quality_settings.get(quality, quality_settings['medium'])
PresetDeflate(q) ==
    CASE q = "high" -> 1
      [] q = "low" -> 5
      [] OTHER -> 3

\* current_deflate = min(settings['deflate'] + attempt, 9)
CurrentDeflate(q, attempt) == Min(PresetDeflate(q) + attempt, 9)

\* doc.save(str(output_file), garbage=4, deflate=True, ...): the keyword
\* arguments of the call; current_deflate is not among them
SaveOptions(q, attempt) ==
    [garbage |-> 4, deflate |-> TRUE, deflate_images |-> TRUE,
     deflate_fonts |-> TRUE, clean |-> TRUE, pretty |-> FALSE]

WithinTarget_NoTolerance(size, target) == size <= target

\* result_size <= target_size_mb * 1.05, in integer units
WithinTarget(size, target) == size * 100 <= target * 105

RegressionGuard_NoGuard(final_size, original_size) == FALSE

\* if final_size > original_size
RegressionGuard(final_size, original_size) == final_size > original_size

\* return True, None (the three success returns)
RetSuccess == <<TRUE, "None">>

RetError == <<FALSE, "Error during compression">>

RetNotMet_Failure == RetError

\* return True, None  # Still return success as we did compress it
RetNotMet == <<TRUE, "None">>

\* compression_ratio = ((original_size - final_size) / original_size) * 100
CompressionRatio(original_size, final_size) ==
    ((original_size - final_size) * 100) \div original_size

cpInit ==
    cp \in [pc : {"start"},
            run : {1},
            first_size : {0},
            readable : BOOLEAN,
            original_size : Sizes,
            target_size_mb : Targets,
            quality : Qualities,
            max_iterations : 0 .. MaxIter,
            attempt : {0},
            current_deflate : {0},
            save_options : {<<>>},
            doc_open : {FALSE},
            stripped : {FALSE},
            out_file : {NoFile},
            attempts : {<<>>},
            fault : {"none"},
            persisted : {0},
            final_size : {0},
            compression_ratio : {0},
            log : {{}},
            ret : {NoRet}]

cpIdle == cp = [pc |-> "idle"]

\* except Exception as e: error(error_msg); return False, error_msg
cpRaise(rec, why) ==
    [rec EXCEPT !.pc = "done", !.fault = why, !.ret = RetError,
                !.log = @ \cup {"error"}]

\* lines 146-174: size of the input, fitz.open, _strip_objects
compress_pdf_open ==
    /\ cp.pc = "start"
    /\ IF ~cp.readable
       THEN cp' = cpRaise(cp, "open")
       ELSE cp' = [cp EXCEPT
                !.pc = IF cp.max_iterations = 0 THEN "final" ELSE "loop",
                !.doc_open = TRUE,
                !.stripped = TRUE,
                !.log = IF cp.original_size <= cp.target_size_mb
                        THEN @ \cup {"already_under_target"} ELSE @]
    /\ UNCHANGED <<rz, sc, ex, px, bt, cl, mp>>

\* one iteration of `for attempt in range(max_iterations)`: doc.save raises
\* and leaves the output path as it was, or writes a file of some size
compress_pdf_attempt ==
    /\ cp.pc = "loop"
    /\ cp.attempt < cp.max_iterations
    /\ LET opts == SaveOptions(cp.quality, cp.attempt)
           level == CurrentDeflate(cp.quality, cp.attempt)
       IN \/ cp' = cpRaise([cp EXCEPT !.current_deflate = level,
                                      !.save_options = opts], "save")
          \/ \E result_size \in Sizes :
               cp' = [cp EXCEPT
                  !.current_deflate = level,
                  !.save_options = opts,
                  !.out_file = [content |-> "compressed", size |-> result_size],
                  !.attempts = Append(@, result_size),
                  !.attempt = IF WithinTarget(result_size, cp.target_size_mb)
                              THEN @ ELSE @ + 1,
                  !.pc = IF WithinTarget(result_size, cp.target_size_mb)
                            \/ cp.attempt + 1 = cp.max_iterations
                         THEN "final" ELSE "loop"]
    /\ UNCHANGED <<rz, sc, ex, px, bt, cl, mp>>

\* lines 206-243: doc.close, the final size check, the regression guard and
\* the three success returns
compress_pdf_finish ==
    /\ cp.pc = "final"
    /\ IF cp.out_file = NoFile
       THEN \* _get_pdf_size_mb(output_file) raises: no save has happened
            cp' = cpRaise([cp EXCEPT !.doc_open = FALSE], "stat")
       ELSE LET final == cp.out_file.size
                ratio == CompressionRatio(cp.original_size, final)
            IN IF RegressionGuard(final, cp.original_size)
               THEN cp' = [cp EXCEPT
                      !.pc = "done", !.doc_open = FALSE,
                      !.persisted = final,
                      !.out_file = [content |-> "original",
                                    size |-> cp.original_size],
                      !.final_size = cp.original_size,
                      !.compression_ratio = 0,
                      !.log = @ \cup {"size_increased", "cannot_compress_further"},
                      !.ret = RetSuccess]
               ELSE IF WithinTarget(final, cp.target_size_mb)
               THEN cp' = [cp EXCEPT
                      !.pc = "done", !.doc_open = FALSE,
                      !.persisted = final,
                      !.final_size = final,
                      !.compression_ratio = ratio,
                      !.log = @ \cup {"compressed"},
                      !.ret = RetSuccess]
               ELSE cp' = [cp EXCEPT
                      !.pc = "done", !.doc_open = FALSE,
                      !.persisted = final,
                      !.final_size = final,
                      !.compression_ratio = ratio,
                      !.log = @ \cup {"target_not_fully_met"},
                      !.ret = RetNotMet]
    /\ UNCHANGED <<rz, sc, ex, px, bt, cl, mp>>

rzIdle == rz = [pc |-> "idle"]

scIdle == sc = [pc |-> "idle"]

exIdle == ex = [pc |-> "idle"]

pxIdle == px = [pc |-> "idle"]

btIdle == bt = [pc |-> "idle"]

clIdle == cl = [pc |-> "idle"]

mpIdle == mp = [pc |-> "idle"]

\* the operations a specification does not run
RestIdle == pxIdle /\ btIdle /\ clIdle /\ mpIdle

InitCompress == cpInit /\ rzIdle /\ scIdle /\ exIdle /\ RestIdle

NextCompress ==
    \/ compress_pdf_open
    \/ compress_pdf_attempt
    \/ compress_pdf_finish

SpecCompress == InitCompress /\ [][NextCompress]_vars

(***************************************************************************)
(* Claims about compress_pdf, checked under SpecCompress.                  *)
(***************************************************************************)
\* every one of the max_iterations save attempts ran and left the document
\* above target * 1.05
AllAttemptsAboveTarget ==
    /\ cp.max_iterations >= 1
    /\ Len(cp.attempts) = cp.max_iterations
    /\ \A k \in 1 .. Len(cp.attempts) :
          ~WithinTarget(cp.attempts[k], cp.target_size_mb)

\* C1: once compress_pdf has returned, the file at the output path is never
\* larger than the original input file, whatever the save attempts produced.
C1_OutputNeverLargerThanInput ==
    (cp.pc = "done" /\ cp.out_file # NoFile)
        => cp.out_file.size <= cp.original_size

C9_RegressionFallsBackToOriginal ==
    (cp.pc = "done" /\ cp.persisted > cp.original_size)
        => /\ cp.out_file = [content |-> "original", size |-> cp.original_size]
           /\ cp.final_size = cp.original_size
           /\ cp.compression_ratio = 0
           /\ cp.ret = RetSuccess

C9_Witness ==
    /\ cp.pc = "done"
    /\ cp.persisted > cp.original_size
    /\ cp.out_file.content = "original"

\* C10: if the source is unreadable or a save raises, compress_pdf returns a
\* failure and the invocation has written nothing at the output path.
C10_FailureWritesNothing ==
    (cp.pc = "done" /\ cp.fault \in {"open", "save"})
        => (cp.ret[1] = FALSE /\ cp.out_file = NoFile)

(***************************************************************************)
(* compress_pdf called again on the output of a successful first call,     *)
(* with the same target, quality and max_iterations and a fresh output     *)
(* path.                                                                   *)
(***************************************************************************)
compress_pdf_again ==
    /\ cp.pc = "done"
    /\ cp.run = 1
    /\ cp.ret = RetSuccess
    /\ cp' = [cp EXCEPT
          !.pc = "start",
          !.run = 2,
          !.first_size = cp.out_file.size,
          !.original_size = cp.out_file.size,
          !.attempt = 0,
          !.current_deflate = 0,
          !.save_options = <<>>,
          !.doc_open = FALSE,
          !.stripped = FALSE,
          !.out_file = NoFile,
          !.attempts = <<>>,
          !.fault = "none",
          !.persisted = 0,
          !.final_size = 0,
          !.compression_ratio = 0,
          !.log = {},
          !.ret = NoRet]
    /\ UNCHANGED <<rz, sc, ex, px, bt, cl, mp>>

NextRecompress ==
    \/ NextCompress
    \/ compress_pdf_again

SpecRecompress == InitCompress /\ [][NextRecompress]_vars

\* C13: when compress_pdf is run a second time on its own output with the
\* same target, the file the second run leaves at its output path is never
\* larger than the first output.
C13_SecondOutputNotLarger ==
    (cp.run = 2 /\ cp.pc = "done" /\ cp.out_file # NoFile)
        => cp.out_file.size <= cp.first_size

\* C21: compress_pdf saves at most max_iterations times and stops at the
\* first save whose size is <= target * 1.05: every save before the last
\* one was above that, and after a save within it the loop has been left.
C21_StopsAtFirstSaveWithinTarget ==
    /\ Len(cp.attempts) <= cp.max_iterations
    /\ \A k \in 1 .. Len(cp.attempts) - 1 :
          cp.attempts[k] * 100 > cp.target_size_mb * 105
    /\ (cp.attempts # <<>>
        /\ cp.attempts[Len(cp.attempts)] * 100 <= cp.target_size_mb * 105)
          => cp.pc \in {"final", "done"}

\* two saves above the tolerance, then a third within it ends the loop
C21_Witness ==
    /\ cp.pc = "done"
    /\ cp.run = 1
    /\ Len(cp.attempts) = 3
    /\ cp.attempts[3] * 100 <= cp.target_size_mb * 105
    /\ cp.attempts[3] > cp.target_size_mb

\* the smallest size any save attempt produced
RECURSIVE SmallestAttempt(_)
SmallestAttempt(sizes) ==
    IF Len(sizes) = 1 THEN sizes[1]
    ELSE Min(sizes[1], SmallestAttempt(Tail(sizes)))

\* C22: when the attempts produce different sizes and none meets the
\* budget, the document left at the output path, and the size reported, is
\* the smallest size achieved over all attempts (stated for the runs in
\* which the output is a compressed document, not the copy of the original
\* that the regression guard puts there).
C22_KeepsBestAttempt ==
    (/\ cp.pc = "done"
     /\ cp.ret[1] = TRUE
     /\ cp.out_file.content = "compressed"
     /\ AllAttemptsAboveTarget
     /\ \E j, k \in 1 .. Len(cp.attempts) : cp.attempts[j] # cp.attempts[k])
        => /\ cp.out_file.size = SmallestAttempt(cp.attempts)
           /\ cp.final_size = SmallestAttempt(cp.attempts)

\* C15: the document handle opened by compress_pdf has been released by the
\* time the operation completes, on the failure path as on the success path.
C15_HandleReleasedOnCompletion ==
    cp.pc = "done" => ~cp.doc_open

\* C18: attempt k persists the document with deflate level
\* min(preset level + k, 9): the save of every attempt is given that level.
C18_SavedWithCurrentDeflate ==
    cp.attempts # <<>>
        => /\ cp.current_deflate =
                 Min(PresetDeflate(cp.quality) + Len(cp.attempts) - 1, 9)
           /\ "deflate_level" \in DOMAIN cp.save_options
           /\ cp.save_options.deflate_level = cp.current_deflate

(***************************************************************************)
(* resize_image (engine/image_processor.py)                                *)
(*                                                                         *)
(* The encoder is any deterministic function from quality to byte size:    *)
(* rz.sizeAt records the size of every quality encoded so far, and a       *)
(* quality encoded again yields the size recorded for it.                  *)
(***************************************************************************)
NoImage == [quality |-> 0, size |-> 0, format |-> "none"]

\* no earlier call on the same image
NoFirst == [quality |-> 0, target_bytes |-> 0, max_iterations |-> 0]

\* quality_low, quality_high = 5, 95
QualityLow == 5

QualityHigh == 95

\* img.save(buffer, format='JPEG', quality=95, optimize=True)
FirstCheckQuality == 95

\* best_quality = 5 (lines 85 and 118)
FloorQuality == 5

\* img.save(output_file, format=output_format, quality=90, optimize=True)
PlainQuality == 90

FitsBudget_OffByOne(size, target_bytes) == size <= target_bytes + 1

\* buffer.tell() <= target_bytes / current_size <= target_bytes
FitsBudget(size, target_bytes) == size <= target_bytes

MidQuality_Low(low, high) == low

MidQuality_Ceil(low, high) == (low + high + 1) \div 2

\* quality = (quality_low + quality_high) // 2
MidQuality(low, high) == (low + high) \div 2

AfterFirstCheck_AlwaysSearch(fits, max_iterations) ==
    IF max_iterations = 0 THEN "write" ELSE "search"

\* lines 92-97: `if buffer.tell() <= target_bytes: ... else:` the search loop,
\* which has no iteration when max_iterations is 0
AfterFirstCheck(fits, max_iterations) ==
    IF fits \/ max_iterations = 0 THEN "write" ELSE "search"

\* the sizes img.save may produce at quality q, given the sizes seen so far
EncodedSizes(sizeAt, q) ==
    IF q \in DOMAIN sizeAt THEN {sizeAt[q]} ELSE ImgSizes

\* the sizes at quality q that keep the encoder non-decreasing in quality
MonotoneSizes(sizeAt, q) ==
    {s \in ImgSizes : \A x \in DOMAIN sizeAt :
                         /\ x <= q => sizeAt[x] <= s
                         /\ x >= q => s <= sizeAt[x]}

\* img.save(buffer, format='JPEG', quality=q, optimize=True) of an image
\* whose encoder is arbitrary, or non-decreasing in quality
Encode(rec, q) ==
    IF rec.monotone
    THEN EncodedSizes(rec.sizeAt, q) \cap MonotoneSizes(rec.sizeAt, q)
    ELSE EncodedSizes(rec.sizeAt, q)

BestFound_High(found_solution, best_quality) ==
    IF found_solution THEN best_quality ELSE QualityHigh

\* lines 115-118: `if not found_solution: best_quality = 5`
BestFound(found_solution, best_quality) ==
    IF found_solution THEN best_quality ELSE FloorQuality

Remember(sizeAt, q, size) ==
    [x \in DOMAIN sizeAt \cup {q} |-> IF x = q THEN size ELSE sizeAt[x]]

\* return True, None
RzSuccess == <<TRUE, "None">>

RzError == <<FALSE, "Error processing image">>

RzNoSolution_Failure == RzError

\* the return reached after "Could not meet target size" (line 138)
RzNoSolution == RzSuccess

rzStart(monotone) ==
        [pc : {"start"},
            monotone : {monotone},
            run : {1},
            first : {NoFirst},
            readable : BOOLEAN,
            output_format : {"JPEG", "PNG"},
            has_target : BOOLEAN,
            target_bytes : ImgTargets,
            max_iterations : 0 .. MaxResizeIter,
            sizeAt : {<<>>},
            quality_low : {QualityLow},
            quality_high : {QualityHigh},
            best_quality : {FloorQuality},
            found_solution : {FALSE},
            attempt : {0},
            probes : {<<>>},
            steps : {<<>>},
            out : {NoImage},
            log : {{}},
            ret : {NoRet}]

rzInit == rz \in rzStart(FALSE)

\* lines 43-69: Image.open, the colour-mode conversion, the branch taken
resize_image_open ==
    /\ rz.pc = "start"
    /\ IF ~rz.readable
       THEN rz' = [rz EXCEPT !.pc = "done", !.ret = RzError,
                             !.log = @ \cup {"error"}]
       ELSE rz' = [rz EXCEPT !.pc =
                     IF ~rz.has_target THEN "plain"
                     ELSE IF rz.output_format = "PNG" THEN "png"
                     ELSE "first_check"]
    /\ UNCHANGED <<cp, sc, ex, px, bt, cl, mp>>

\* lines 74-80 and 124-138: PNG at the highest compression level
resize_image_png ==
    /\ rz.pc = "png"
    /\ \E final_size \in ImgSizes :
         rz' = [rz EXCEPT
            !.pc = "done",
            !.out = [quality |-> 0, size |-> final_size, format |-> "PNG"],
            !.log = (IF final_size > rz.target_bytes
                     THEN @ \cup {"png_limit_reached"} ELSE @)
                    \cup {"processed"},
            !.ret = RzSuccess]
    /\ UNCHANGED <<cp, sc, ex, px, bt, cl, mp>>

\* lines 127-138: no target size, save at quality 90
resize_image_plain ==
    /\ rz.pc = "plain"
    /\ \E final_size \in ImgSizes :
         rz' = [rz EXCEPT
            !.pc = "done",
            !.out = [quality |-> PlainQuality, size |-> final_size,
                     format |-> rz.output_format],
            !.log = @ \cup {"saved"},
            !.ret = RzSuccess]
    /\ UNCHANGED <<cp, sc, ex, px, bt, cl, mp>>

\* lines 89-96: "First check if 95 works"
resize_image_first_check ==
    /\ rz.pc = "first_check"
    /\ \E size \in Encode(rz, FirstCheckQuality) :
         rz' = [rz EXCEPT
            !.sizeAt = Remember(@, FirstCheckQuality, size),
            !.best_quality = IF FitsBudget(size, rz.target_bytes)
                             THEN FirstCheckQuality ELSE @,
            !.found_solution = FitsBudget(size, rz.target_bytes),
            !.pc = AfterFirstCheck(FitsBudget(size, rz.target_bytes),
                                   rz.max_iterations)]
    /\ UNCHANGED <<cp, sc, ex, px, bt, cl, mp>>

\* lines 97-112: one iteration of `for attempt in range(max_iterations)`
resize_image_search_step ==
    /\ rz.pc = "search"
    /\ rz.attempt < rz.max_iterations
    /\ LET quality == MidQuality(rz.quality_low, rz.quality_high)
       IN \E current_size \in Encode(rz, quality) :
            LET fits == FitsBudget(current_size, rz.target_bytes)
                low  == IF fits THEN quality + 1 ELSE rz.quality_low
                high == IF fits THEN rz.quality_high ELSE quality - 1
            IN rz' = [rz EXCEPT
                 !.sizeAt = Remember(@, quality, current_size),
                 !.probes = Append(@, quality),
                 !.steps = Append(@, [low |-> rz.quality_low,
                                      high |-> rz.quality_high,
                                      quality |-> quality,
                                      fits |-> fits]),
                 !.best_quality = IF fits THEN quality ELSE @,
                 !.found_solution = IF fits THEN TRUE ELSE @,
                 !.quality_low = low,
                 !.quality_high = high,
                 !.attempt = @ + 1,
                 !.pc = IF high < low \/ rz.attempt + 1 = rz.max_iterations
                        THEN "write" ELSE "search"]
    /\ UNCHANGED <<cp, sc, ex, px, bt, cl, mp>>

\* lines 114-138: "Save with best found" and the return
resize_image_write ==
    /\ rz.pc = "write"
    /\ LET best == BestFound(rz.found_solution, rz.best_quality)
       IN \E final_size \in Encode(rz, best) :
            rz' = [rz EXCEPT
               !.pc = "done",
               !.best_quality = best,
               !.sizeAt = Remember(@, best, final_size),
               !.out = [quality |-> best, size |-> final_size,
                        format |-> "JPEG"],
               !.log = (IF rz.found_solution THEN @
                        ELSE @ \cup {"could_not_meet_target"})
                       \cup {"processed"},
               !.ret = IF rz.found_solution THEN RzSuccess ELSE RzNoSolution]
    /\ UNCHANGED <<cp, sc, ex, px, bt, cl, mp>>

InitResize == rzInit /\ cpIdle /\ scIdle /\ exIdle /\ RestIdle

NextResize ==
    \/ resize_image_open
    \/ resize_image_png
    \/ resize_image_plain
    \/ resize_image_first_check
    \/ resize_image_search_step
    \/ resize_image_write

SpecResize == InitResize /\ [][NextResize]_vars

(***************************************************************************)
(* resize_image called again on the same image with the same               *)
(* max_iterations and a byte budget that is no larger.  The image is one   *)
(* whose encoded size is non-decreasing in quality, and the sizes encoded  *)
(* by the first call stay what they were.                                  *)
(***************************************************************************)
resize_image_again ==
    /\ rz.pc = "done"
    /\ rz.run = 1
    /\ rz.out.format = "JPEG" /\ rz.has_target
    /\ \E target_bytes \in ImgTargets :
         /\ target_bytes <= rz.target_bytes
         /\ rz' = [rz EXCEPT
               !.pc = "start",
               !.run = 2,
               !.first = [quality |-> rz.out.quality,
                          target_bytes |-> rz.target_bytes,
                          max_iterations |-> rz.max_iterations],
               !.target_bytes = target_bytes,
               !.quality_low = QualityLow,
               !.quality_high = QualityHigh,
               !.best_quality = FloorQuality,
               !.found_solution = FALSE,
               !.attempt = 0,
               !.probes = <<>>,
               !.steps = <<>>,
               !.out = NoImage,
               !.log = {},
               !.ret = NoRet]
    /\ UNCHANGED <<cp, sc, ex, px, bt, cl, mp>>

InitSearch == rz \in rzStart(TRUE) /\ cpIdle /\ scIdle /\ exIdle /\ RestIdle

NextSearch ==
    \/ NextResize
    \/ resize_image_again

SpecSearch == InitSearch /\ [][NextSearch]_vars

(***************************************************************************)
(* Claims about resize_image, checked under SpecResize.                    *)
(***************************************************************************)
\* the JPEG search ran and has written its output
SearchDone == rz.pc = "done" /\ rz.out.format = "JPEG" /\ rz.has_target

\* the qualities encoded before the output was written: 95 and the probes
ProbedQualities ==
    {FirstCheckQuality} \cup {rz.probes[k] : k \in 1 .. Len(rz.probes)}

\* C2: whenever the search reports a fitting quality (found_solution), the
\* image written to the output is encoded at that quality and its byte size
\* is within the target, for any encoder and any max_iterations.
C2_FoundQualityFitsBudget ==
    (SearchDone /\ rz.found_solution)
        => /\ rz.out.quality = rz.best_quality
           /\ rz.best_quality \in ProbedQualities
           /\ rz.out.size <= rz.target_bytes

C2_Witness ==
    /\ SearchDone
    /\ rz.found_solution
    /\ Len(rz.probes) >= 2
    /\ rz.best_quality # FirstCheckQuality
    /\ rz.out.size <= rz.target_bytes

\* C7: when no probed quality fits the budget, resize_image reports that no
\* quality met it (found_solution false, a warning), writes the output at the
\* floor quality and returns success.
C7_NoFitWritesFloorQuality ==
    (SearchDone /\ \A q \in ProbedQualities : rz.sizeAt[q] > rz.target_bytes)
        => /\ ~rz.found_solution
           /\ "could_not_meet_target" \in rz.log
           /\ rz.out.quality = FloorQuality
           /\ rz.ret = RzSuccess

C7_Witness ==
    /\ SearchDone
    /\ Len(rz.probes) >= 2
    /\ \A q \in ProbedQualities : rz.sizeAt[q] > rz.target_bytes
    /\ rz.out.quality = FloorQuality
    /\ rz.out.size > rz.target_bytes

\* C11 as stated: if the first, maximum-quality probe fits the budget, the
\* search returns quality 100 without any binary-search probe.
C11_FirstProbeFitsReturns100 ==
    (SearchDone /\ rz.sizeAt[FirstCheckQuality] <= rz.target_bytes)
        => (rz.out.quality = 100 /\ rz.probes = <<>>)

\* C11 as amended: the first probe is made at quality 95, not 100; if the
\* image encoded at 95 fits the budget, 95 is chosen and written without any
\* binary-search probe.
C11_FirstCheckFitsReturns95 ==
    (SearchDone /\ 95 \in DOMAIN rz.sizeAt /\ rz.sizeAt[95] <= rz.target_bytes)
        => /\ rz.found_solution
           /\ rz.best_quality = 95
           /\ rz.out.quality = 95
           /\ rz.probes = <<>>

C11_Witness ==
    /\ SearchDone
    /\ rz.max_iterations > 0
    /\ rz.sizeAt[95] <= rz.target_bytes
    /\ rz.out.quality = 95
    /\ rz.probes = <<>>

\* the bounds the search holds after its k-th probe
LowAfter(k) ==
    IF k < Len(rz.steps) THEN rz.steps[k + 1].low ELSE rz.quality_low

HighAfter(k) ==
    IF k < Len(rz.steps) THEN rz.steps[k + 1].high ELSE rz.quality_high

\* every probe halves the interval as the claim describes
ProbesHalveInterval ==
    \A k \in 1 .. Len(rz.steps) :
       LET s == rz.steps[k]
       IN /\ s.quality = (s.low + s.high) \div 2
          /\ LowAfter(k) = IF s.fits THEN s.quality + 1 ELSE s.low
          /\ HighAfter(k) = IF s.fits THEN s.high ELSE s.quality - 1
          /\ (s.fits /\ \A j \in k + 1 .. Len(rz.steps) : ~rz.steps[j].fits)
                => (rz.found_solution /\ rz.best_quality = s.quality)

\* the search loop has been left
SearchLeft == rz.pc \in {"write", "done"} /\ rz.steps # <<>>

\* C19 as stated: the search runs over [1, 99]: it starts from low = 1 and
\* high = 99, at every probe 1 <= low <= mid <= high <= 99, and the loop stops
\* exactly when low > high.
C19_SearchOver1To99 ==
    /\ ProbesHalveInterval
    /\ \A k \in 1 .. Len(rz.steps) :
          LET s == rz.steps[k]
          IN /\ 1 <= s.low /\ s.low <= s.quality
             /\ s.quality <= s.high /\ s.high <= 99
             /\ k = 1 => (s.low = 1 /\ s.high = 99)
    /\ rz.pc = "search" => rz.quality_low <= rz.quality_high
    /\ SearchLeft => rz.quality_low > rz.quality_high

\* C19 as amended: the search runs over [5, 95]: it starts from low = 5 and
\* high = 95, at every probe 5 <= low <= mid <= high <= 95 with
\* mid = (low + high) div 2, a fitting probe records mid as best and sets
\* low = mid + 1, a non-fitting probe sets high = mid - 1, and the loop stops
\* when low > high or after max_iterations probes, whichever comes first.
C19_SearchOver5To95 ==
    /\ ProbesHalveInterval
    /\ \A k \in 1 .. Len(rz.steps) :
          LET s == rz.steps[k]
          IN /\ 5 <= s.low /\ s.low <= s.quality
             /\ s.quality <= s.high /\ s.high <= 95
             /\ k = 1 => (s.low = 5 /\ s.high = 95)
    /\ rz.pc = "search" => /\ rz.quality_low <= rz.quality_high
                           /\ Len(rz.steps) < rz.max_iterations
    /\ SearchLeft => \/ rz.quality_low > rz.quality_high
                     \/ Len(rz.steps) = rz.max_iterations

\* a search of five probes, fitting and not, that ends with low > high
C19_Witness ==
    /\ SearchDone
    /\ Len(rz.steps) >= 5
    /\ Len(rz.steps) < rz.max_iterations
    /\ \E k \in 1 .. Len(rz.steps) : rz.steps[k].fits
    /\ \E k \in 1 .. Len(rz.steps) : ~rz.steps[k].fits
    /\ rz.quality_low > rz.quality_high

\* C20: for any encoder and any budget the search terminates (every state
\* before the return has a next step and every step consumes an iteration or
\* ends the operation), with at most 7 encode calls after the first check.
C20_AtMostSevenProbes ==
    /\ rz.pc = "done" \/ ENABLED NextResize
    /\ Len(rz.probes) <= 7
    /\ rz.pc = "search" => Len(rz.probes) < 7

C20_Witness ==
    /\ SearchDone
    /\ Len(rz.probes) = 7
    /\ rz.max_iterations > 7

(***************************************************************************)
(* Claims about the search on a monotone encoder, checked under SpecSearch.*)
(***************************************************************************)
\* the second call on the image has written its output
SecondSearchDone == SearchDone /\ rz.run = 2

\* C12: for a fixed image whose encoded size is non-decreasing in quality
\* and two budgets b1 >= b2, the quality written for b1 is at least the
\* quality written for b2.
C12_QualityMonotoneInBudget ==
    SecondSearchDone
        => /\ rz.first.target_bytes >= rz.target_bytes
           /\ rz.first.max_iterations = rz.max_iterations
           /\ rz.first.quality >= rz.out.quality

\* both budgets are met by the search, the smaller at a lower quality
C12_Witness ==
    /\ SecondSearchDone
    /\ rz.first.target_bytes > rz.target_bytes
    /\ rz.found_solution
    /\ rz.probes # <<>>
    /\ rz.first.quality > rz.out.quality
    /\ rz.out.quality > FloorQuality

\* under an encoder non-decreasing in quality, quality q does not fit the
\* budget: some quality at or below q was encoded and was too large
CannotFit(q) ==
    \E x \in DOMAIN rz.sizeAt : x <= q /\ rz.sizeAt[x] > rz.target_bytes

\* C26: with an encoder whose size is non-decreasing in quality and the
\* default max_iterations (10), if some quality of 5..95 fits the budget the
\* search writes the highest such quality: the quality written fits and no
\* higher quality of the range does; the search finds nothing only when no
\* quality of the range fits.
C26_HighestFittingQuality ==
    (SearchDone /\ rz.monotone /\ rz.max_iterations = 10)
        => IF rz.found_solution
           THEN /\ rz.out.quality \in 5 .. 95
                /\ rz.out.size <= rz.target_bytes
                /\ rz.sizeAt[rz.out.quality] = rz.out.size
                /\ \A q \in rz.out.quality + 1 .. 95 : CannotFit(q)
           ELSE \A q \in 5 .. 95 : CannotFit(q)

\* seven probes end on a quality strictly inside the range
C26_Witness ==
    /\ SearchDone
    /\ rz.monotone
    /\ rz.run = 1
    /\ rz.max_iterations = 10
    /\ rz.found_solution
    /\ Len(rz.probes) = 7
    /\ rz.out.quality > 5
    /\ rz.out.quality < 94
    /\ rz.sizeAt[rz.out.quality + 1] > rz.target_bytes

(***************************************************************************)
(* remove_blank_pages and _scan_page_brightness (engine/academic.py)       *)
(*                                                                         *)
(* A page is the pair of counts its pixmap yields under the stride of      *)
(* _scan_page_brightness, or a page whose rendering raises.  Futures of    *)
(* the process pool run concurrently, at most os.cpu_count() at a time,    *)
(* and finish in any order.                                                *)
(***************************************************************************)
PageKinds ==
    {[sampled |-> 100, bright |-> 98, raises |-> FALSE],
     [sampled |-> 100, bright |-> 97, raises |-> FALSE],
     [sampled |-> 0, bright |-> 0, raises |-> FALSE],
     [sampled |-> 0, bright |-> 0, raises |-> TRUE]}

\* threshold: float = 0.98, in percent
Thresholds == {98}

\* the document at the output path before anything is saved there
NoDoc == <<"none">>

\* lines 56-59: if sampled_pixels == 0: return False;
\* whiteness = bright_pixels / sampled_pixels; return whiteness >= threshold
ScanPageBrightness(page, threshold) ==
    IF page.sampled = 0 THEN FALSE
    ELSE page.bright * 100 >= threshold * page.sampled

\* the value a finished future holds for a page
FutureOutcome(page, threshold) ==
    IF page.raises THEN "raised"
    ELSE IF ScanPageBrightness(page, threshold) THEN "blank" ELSE "not_blank"

Finished == {"blank", "not_blank", "raised", "done", "failed"}

Running(future) == {i \in DOMAIN future : future[i] = "running"}

Pending(future) == {i \in DOMAIN future : future[i] = "pending"}

\* the pool takes work items in submission order
NextPending(future) ==
    CHOOSE i \in Pending(future) : \A j \in Pending(future) : i <= j

\* result_iterator's `finally: for future in fs: future.cancel()`:
\* a future that has not started is cancelled, a running one is not
CancelPending(future) ==
    [i \in DOMAIN future |->
        IF future[i] = "pending" THEN "cancelled" ELSE future[i]]

ReadyToCollect_AsCompleted(k) ==
    /\ k \in DOMAIN sc.future
    /\ k \notin sc.collected
    /\ sc.future[k] \in Finished

\* executor.map yields the results in the order of the tasks: the next
\* result is that of the first task not yet collected, once it has finished
ReadyToCollect(k) ==
    /\ k = Len(sc.results) + 1
    /\ k \in DOMAIN sc.future
    /\ sc.future[k] \in Finished

ExecutorExit_NoWait(future) == TRUE

HandleUsed_Coordinator(worker) == 0

\* doc = fitz.open(str(path)); page = doc[page_num]: a worker is handed the
\* path of the source and reads its pages through the handle it opened
\* itself; handles are named by the worker that opened them, 0 being the
\* coordinator
HandleUsed(worker) == worker

\* `with ProcessPoolExecutor() as executor` leaves through
\* shutdown(wait=True): it returns when no work item is pending or running
ExecutorExit(future) == Running(future) = {} /\ Pending(future) = {}

\* lines 89-91: for i, is_blank in enumerate(results):
\*                  if is_blank: blank_pages.append(i + 1)
RECURSIVE EnumerateBlank(_, _)
EnumerateBlank(results, i) ==
    IF i > Len(results) THEN <<>>
    ELSE (IF results[i] = "blank" THEN <<i>> ELSE <<>>)
         \o EnumerateBlank(results, i + 1)

RECURSIVE KeptPages_ZeroBased(_, _, _)
KeptPages_ZeroBased(total_pages, blank_pages, page_num) ==
    IF page_num >= total_pages THEN <<>>
    ELSE (IF \E k \in 1 .. Len(blank_pages) : blank_pages[k] = page_num
          THEN <<>> ELSE <<page_num + 1>>)
         \o KeptPages_ZeroBased(total_pages, blank_pages, page_num + 1)

\* lines 112-114: the pages copied into output_doc, in page order
RECURSIVE KeptPages(_, _, _)
KeptPages(total_pages, blank_pages, page_num) ==
    IF page_num >= total_pages THEN <<>>
    ELSE (IF \E k \in 1 .. Len(blank_pages) : blank_pages[k] = page_num + 1
          THEN <<>> ELSE <<page_num + 1>>)
         \o KeptPages(total_pages, blank_pages, page_num + 1)

ScSuccess == <<TRUE, "None">>

ScError == <<FALSE, "Error removing blank pages">>

PageSeqs == UNION {[1 .. n -> PageKinds] : n \in 0 .. MaxScanPages}

scInit ==
    sc \in [pc : {"start"},
            readable : BOOLEAN,
            pages : PageSeqs,
            threshold : Thresholds,
            cpu_count : 1 .. MaxCores,
            total_pages : {0},
            doc_open : {FALSE},
            handle : {<<>>},
            uses : {{}},
            future : {<<>>},
            finish_order : {<<>>},
            collected : {{}},
            results : {<<>>},
            blank_pages : {<<>>},
            running_at_error : {0},
            worker_failed : {FALSE},
            out : {NoDoc},
            log : {{}},
            ret : {NoRet}]

scRaise(rec) ==
    [rec EXCEPT !.pc = "done", !.ret = ScError, !.log = @ \cup {"error"}]

\* lines 71-75: doc = fitz.open(str(input_file)); total_pages = len(doc)
remove_blank_pages_start ==
    /\ sc.pc = "start"
    /\ IF ~sc.readable
       THEN sc' = scRaise(sc)
       ELSE sc' = [sc EXCEPT
               !.pc = "opened",
               !.doc_open = TRUE,
               !.total_pages = Len(sc.pages)]
    /\ UNCHANGED <<cp, rz, ex, px, bt, cl, mp>>

\* lines 76-87: doc.close(), build the tasks, executor.map
remove_blank_pages_dispatch ==
    /\ sc.pc = "opened"
    /\ sc' = [sc EXCEPT
          !.pc = "collect",
          !.doc_open = FALSE,
          !.handle = [i \in 1 .. sc.total_pages |-> "none"],
          !.future = [i \in 1 .. sc.total_pages |-> "pending"]]
    /\ UNCHANGED <<cp, rz, ex, px, bt, cl, mp>>

\* a pool process takes the next task and opens its own handle (line 35)
scan_worker_start ==
    /\ sc.pc \in {"collect", "shutdown"}
    /\ Pending(sc.future) # {}
    /\ Cardinality(Running(sc.future)) < sc.cpu_count
    /\ sc' = [sc EXCEPT !.future[NextPending(sc.future)] = "running",
                        !.handle[NextPending(sc.future)] = "open"]
    /\ UNCHANGED <<cp, rz, ex, px, bt, cl, mp>>

\* _scan_page_brightness reads its page and returns, or raises before
\* doc.close() (line 54), in a pool process
scan_worker_finish ==
    /\ sc.pc \in {"collect", "shutdown"}
    /\ \E i \in Running(sc.future) :
         sc' = [sc EXCEPT
            !.future[i] = FutureOutcome(sc.pages[i], sc.threshold),
            !.uses = @ \cup {[worker |-> i, handle |-> HandleUsed(i)]},
            !.handle[i] = IF sc.pages[i].raises THEN "open" ELSE "closed",
            !.finish_order = Append(@, i)]
    /\ UNCHANGED <<cp, rz, ex, px, bt, cl, mp>>

\* line 87: list(executor.map(...)) takes the next result, or the exception
\* of a failed task leaves the with block
remove_blank_pages_collect ==
    /\ sc.pc = "collect"
    /\ \E k \in DOMAIN sc.future :
         /\ ReadyToCollect(k)
         /\ IF sc.future[k] = "raised"
            THEN sc' = [sc EXCEPT
                    !.pc = "shutdown",
                    !.worker_failed = TRUE,
                    !.running_at_error = Cardinality(Running(sc.future)),
                    !.future = CancelPending(@)]
            ELSE sc' = [sc EXCEPT
                    !.collected = @ \cup {k},
                    !.results = Append(@, sc.future[k])]
    /\ UNCHANGED <<cp, rz, ex, px, bt, cl, mp>>

\* the exception passes ProcessPoolExecutor.__exit__ and reaches
\* `except Exception` (lines 130-133)
remove_blank_pages_shutdown ==
    /\ sc.pc = "shutdown"
    /\ ExecutorExit(sc.future)
    /\ sc' = scRaise(sc)
    /\ UNCHANGED <<cp, rz, ex, px, bt, cl, mp>>

\* lines 89-96: all results are in; build blank_pages and leave the with block
remove_blank_pages_classify ==
    /\ sc.pc = "collect"
    /\ Len(sc.results) = sc.total_pages
    /\ ExecutorExit(sc.future)
    /\ sc' = [sc EXCEPT !.pc = "write",
                        !.blank_pages = EnumerateBlank(sc.results, 1)]
    /\ UNCHANGED <<cp, rz, ex, px, bt, cl, mp>>

\* lines 98-128: save a copy, or the document without the blank pages;
\* the document library refuses to save a document with zero pages
remove_blank_pages_write ==
    /\ sc.pc = "write"
    /\ LET kept == KeptPages(sc.total_pages, sc.blank_pages, 0)
       IN IF kept = <<>>
          THEN sc' = scRaise([sc EXCEPT !.doc_open = TRUE])
          ELSE sc' = [sc EXCEPT
                  !.pc = "done",
                  !.out = kept,
                  !.log = @ \cup {IF sc.blank_pages = <<>>
                                  THEN "no_changes_needed" ELSE "removed"},
                  !.ret = ScSuccess]
    /\ UNCHANGED <<cp, rz, ex, px, bt, cl, mp>>

InitScan == scInit /\ cpIdle /\ rzIdle /\ exIdle /\ RestIdle

NextScan ==
    \/ remove_blank_pages_start
    \/ remove_blank_pages_dispatch
    \/ scan_worker_start
    \/ scan_worker_finish
    \/ remove_blank_pages_collect
    \/ remove_blank_pages_shutdown
    \/ remove_blank_pages_classify
    \/ remove_blank_pages_write

SpecScan == InitScan /\ [][NextScan]_vars

(***************************************************************************)
(* Claims about the blank-page scan, checked under SpecScan.               *)
(***************************************************************************)
\* the 1-based numbers of the pages that classify as blank
BlankPageNumbers ==
    {i \in 1 .. Len(sc.pages) : ScanPageBrightness(sc.pages[i], sc.threshold)}

RECURSIVE Ascending(_)
Ascending(S) ==
    IF S = {} THEN <<>>
    ELSE LET least == CHOOSE x \in S : \A y \in S : x <= y
         IN <<least>> \o Ascending(S \ {least})

\* the scan has delivered all its results
ScanClassified ==
    sc.pc \in {"write", "done"} /\ sc.readable /\ ~sc.worker_failed

\* C3: whatever the number of pages and workers and the order in which the
\* workers finish, the i-th collected result is the result computed for page
\* i, and the blank list is exactly the 1-based numbers of the blank pages
\* in ascending order.
C3_ResultsInPageOrder ==
    /\ \A i \in 1 .. Len(sc.results) :
          sc.results[i] = FutureOutcome(sc.pages[i], sc.threshold)
    /\ ScanClassified => sc.blank_pages = Ascending(BlankPageNumbers)

\* blank pages at positions 2 and 4 are reported as [2, 4] although page 2
\* finished before page 1
C3_Witness ==
    /\ sc.pc = "done"
    /\ sc.ret = ScSuccess
    /\ Len(sc.pages) = 4
    /\ sc.blank_pages = <<2, 4>>
    /\ sc.finish_order[1] = 2

\* the 1-based numbers of the pages that do not classify as blank
NonBlankPageNumbers == (1 .. Len(sc.pages)) \ BlankPageNumbers

\* C28: on success the document written holds exactly the pages that were
\* not classified blank, in their original order, total minus blank pages
\* in number; when no page is blank it holds every page of the input.
C28_OutputIsNonBlankPagesInOrder ==
    (sc.pc = "done" /\ sc.ret = ScSuccess)
        => /\ sc.out = Ascending(NonBlankPageNumbers)
           /\ Len(sc.out) = sc.total_pages - Len(sc.blank_pages)
           /\ sc.blank_pages = <<>>
                 => sc.out = [i \in 1 .. Len(sc.pages) |-> i]

\* pages 2 and 4 of four are blank: the output holds pages 1 and 3
C28_Witness ==
    /\ sc.pc = "done"
    /\ sc.ret = ScSuccess
    /\ Len(sc.pages) = 4
    /\ sc.blank_pages = <<2, 4>>
    /\ sc.out = <<1, 3>>
    /\ "removed" \in sc.log

(***************************************************************************)
(* pdf_to_images and _process_pdf_page_chunk (engine/image_processor.py)   *)
(*                                                                         *)
(* Pages are 0-based indices; ex.broken holds the pages whose rendering or *)
(* saving raises.  A chunk is one future of the pool; its worker writes    *)
(* one image file per page, in the order of the chunk.                     *)
(***************************************************************************)
ChunkSize_Ceil(page_count, num_cores) ==
    Max(1, (page_count + num_cores - 1) \div num_cores)

\* num_cores = os.cpu_count() or 4; chunk_size = max(1, page_count // num_cores)
ChunkSize(page_count, num_cores) == Max(1, page_count \div num_cores)

ChunkEnd_NoClamp(i, chunk_size, page_count) == i + chunk_size

\* min(i + chunk_size, page_count)
ChunkEnd(i, chunk_size, page_count) == Min(i + chunk_size, page_count)

\* page_indices = list(range(i, min(i + chunk_size, page_count)))
PageIndices(i, chunk_size, page_count) ==
    [k \in 1 .. (ChunkEnd(i, chunk_size, page_count) - i) |-> i + k - 1]

\* for i in range(0, page_count, chunk_size): chunks.append(...)
RECURSIVE MakeChunks(_, _, _)
MakeChunks(i, chunk_size, page_count) ==
    IF i >= page_count THEN <<>>
    ELSE <<PageIndices(i, chunk_size, page_count)>>
         \o MakeChunks(i + chunk_size, chunk_size, page_count)

OutputFile_Halved(page_num) == (page_num \div 2) + 1

ProgressStep_PerChunk(count) == 1

\* count = future.result(); completed_pages += count; progress.update(count)
ProgressStep(count) == count

\* output_dir / f"{stem}_page_{page_num + 1}.{format}": the file of a page
\* is named by its 1-based page number
OutputFile(page_num) == page_num + 1

ExSuccess == <<TRUE, "None">>

ExError == <<FALSE, "Error extracting images from PDF">>

BrokenSets(page_count) ==
    {b \in SUBSET (0 .. page_count - 1) : Cardinality(b) <= MaxBroken}

exInit ==
    \E n \in 0 .. MaxExtractPages :
       ex \in [pc : {"start"},
               readable : BOOLEAN,
               page_count : {n},
               broken : BrokenSets(n),
               cpu_count : 1 .. MaxCores,
               doc_open : {FALSE},
               handle : {<<>>},
               uses : {{}},
               chunks : {<<>>},
               future : {<<>>},
               pos : {<<>>},
               files : {{}},
               writes : {{}},
               consumed : {{}},
               completed_pages : {0},
               progress : {0},
               running_at_error : {0},
               worker_failed : {FALSE},
               log : {{}},
               ret : {NoRet}]

exRaise(rec) ==
    [rec EXCEPT !.pc = "done", !.ret = ExError, !.log = @ \cup {"error"}]

\* lines 333-337: doc = fitz.open(str(input_pdf)); page_count = len(doc)
pdf_to_images_start ==
    /\ ex.pc = "start"
    /\ IF ~ex.readable
       THEN ex' = exRaise(ex)
       ELSE ex' = [ex EXCEPT !.pc = "opened", !.doc_open = TRUE]
    /\ UNCHANGED <<cp, rz, sc, px, bt, cl, mp>>

\* lines 338-357: doc.close(), mkdir, build the chunks, submit
pdf_to_images_dispatch ==
    /\ ex.pc = "opened"
    /\ LET chunks == MakeChunks(0, ChunkSize(ex.page_count, ex.cpu_count),
                                ex.page_count)
       IN ex' = [ex EXCEPT
             !.pc = "collect",
             !.doc_open = FALSE,
             !.chunks = chunks,
             !.handle = [c \in 1 .. Len(chunks) |-> "none"],
             !.future = [c \in 1 .. Len(chunks) |-> "pending"],
             !.pos = [c \in 1 .. Len(chunks) |-> 0]]
    /\ UNCHANGED <<cp, rz, sc, px, bt, cl, mp>>

\* a pool process takes the next chunk and opens its own handle (line 303)
chunk_worker_start ==
    /\ ex.pc \in {"collect", "shutdown"}
    /\ Pending(ex.future) # {}
    /\ Cardinality(Running(ex.future)) < ex.cpu_count
    /\ ex' = [ex EXCEPT !.future[NextPending(ex.future)] = "running",
                        !.handle[NextPending(ex.future)] = "open"]
    /\ UNCHANGED <<cp, rz, sc, px, bt, cl, mp>>

\* lines 306-322: one page of `for page_num in page_indices`: the page is
\* rendered and saved, or raises; after the last page the chunk returns
chunk_worker_page ==
    /\ ex.pc \in {"collect", "shutdown"}
    /\ \E c \in Running(ex.future) :
         LET page_num == ex.chunks[c][ex.pos[c] + 1]
             use == [worker |-> c, handle |-> HandleUsed(c)]
         IN IF page_num \in ex.broken
            THEN ex' = [ex EXCEPT !.future[c] = "failed",
                                  !.uses = @ \cup {use}]
            ELSE ex' = [ex EXCEPT
                    !.files = @ \cup {OutputFile(page_num)},
                    !.writes = @ \cup {[file |-> OutputFile(page_num),
                                        worker |-> c,
                                        page |-> page_num]},
                    !.uses = @ \cup {use},
                    !.handle[c] = IF ex.pos[c] + 1 = Len(ex.chunks[c])
                                  THEN "closed" ELSE "open",
                    !.pos[c] = @ + 1,
                    !.future[c] = IF ex.pos[c] + 1 = Len(ex.chunks[c])
                                  THEN "done" ELSE "running"]
    /\ UNCHANGED <<cp, rz, sc, px, bt, cl, mp>>

\* lines 360-363: as_completed yields a finished future; future.result()
\* returns the chunk's page count or raises the worker's exception
pdf_to_images_collect ==
    /\ ex.pc = "collect"
    /\ \E c \in DOMAIN ex.future :
         /\ c \notin ex.consumed
         /\ ex.future[c] \in Finished
         /\ IF ex.future[c] = "failed"
            THEN ex' = [ex EXCEPT
                    !.pc = "shutdown",
                    !.worker_failed = TRUE,
                    !.running_at_error =
                        Cardinality(Running(ex.future) \cup Pending(ex.future))]
            ELSE ex' = [ex EXCEPT
                    !.consumed = @ \cup {c},
                    !.completed_pages = @ + ProgressStep(ex.pos[c]),
                    !.progress = @ + ProgressStep(ex.pos[c])]
    /\ UNCHANGED <<cp, rz, sc, px, bt, cl, mp>>

\* the exception passes ProcessPoolExecutor.__exit__, which waits for every
\* submitted chunk, and reaches `except Exception` (lines 370-373)
pdf_to_images_shutdown ==
    /\ ex.pc = "shutdown"
    /\ ExecutorExit(ex.future)
    /\ ex' = exRaise(ex)
    /\ UNCHANGED <<cp, rz, sc, px, bt, cl, mp>>

\* lines 365-368: every future was consumed; success
pdf_to_images_finish ==
    /\ ex.pc = "collect"
    /\ ex.consumed = DOMAIN ex.future
    /\ ExecutorExit(ex.future)
    /\ ex' = [ex EXCEPT !.pc = "done",
                        !.log = @ \cup {"extracted"},
                        !.ret = ExSuccess]
    /\ UNCHANGED <<cp, rz, sc, px, bt, cl, mp>>

InitExtract == exInit /\ cpIdle /\ rzIdle /\ scIdle /\ RestIdle

NextExtract ==
    \/ pdf_to_images_start
    \/ pdf_to_images_dispatch
    \/ chunk_worker_start
    \/ chunk_worker_page
    \/ pdf_to_images_collect
    \/ pdf_to_images_shutdown
    \/ pdf_to_images_finish

SpecExtract == InitExtract /\ [][NextExtract]_vars

(***************************************************************************)
(* The two parallel page operations together: one run is one invocation of *)
(* either of them.                                                         *)
(***************************************************************************)
InitPages == InitScan \/ InitExtract

NextPages == NextScan \/ NextExtract

SpecPages == InitPages /\ [][NextPages]_vars

(***************************************************************************)
(* Claims about the chunks of pdf_to_images, checked under SpecExtract.    *)
(***************************************************************************)
\* the places of the chunk list that hold page index i
Occurrences(i) ==
    {<<c, k>> \in (1 .. Len(ex.chunks)) \X (1 .. MaxExtractPages + 1) :
        k <= Len(ex.chunks[c]) /\ ex.chunks[c][k] = i}

ChunksBuilt == ex.pc \notin {"start", "opened"} /\ ex.readable

\* C4: for every page_count >= 0 and every core count >= 1 the chunks hold
\* each page index of [0, page_count) exactly once and nothing else, also
\* when page_count is smaller than the core count.
C4_ChunksCoverEachPageOnce ==
    ChunksBuilt =>
       /\ \A i \in 0 .. ex.page_count - 1 : Cardinality(Occurrences(i)) = 1
       /\ \A c \in 1 .. Len(ex.chunks) :
             /\ Len(ex.chunks[c]) >= 1
             /\ \A k \in 1 .. Len(ex.chunks[c]) :
                   ex.chunks[c][k] \in 0 .. ex.page_count - 1

\* five pages on two cores: chunks [0,1], [2,3] and the clamped chunk [4]
C4_Witness ==
    /\ ChunksBuilt
    /\ ex.page_count = 5
    /\ ex.cpu_count = 2
    /\ ex.chunks = <<<<0, 1>>, <<2, 3>>, <<4>>>>

(***************************************************************************)
(* Claims about both parallel operations, checked under SpecPages.         *)
(***************************************************************************)
\* C5: a parallel page operation returns only after every dispatched worker
\* has finished: once it has returned, with a result or with a worker's
\* error, no worker is running and no submitted chunk is still to run.
C5_ReturnsAfterAllWorkers ==
    /\ sc.pc = "done" => Running(sc.future) = {} /\ Pending(sc.future) = {}
    /\ ex.pc = "done" => Running(ex.future) = {} /\ Pending(ex.future) = {}

\* a chunk failed while other chunks were outstanding, and the call returned
C5_Witness ==
    /\ ex.pc = "done"
    /\ ex.worker_failed
    /\ ex.running_at_error > 0
    /\ ex.ret = ExError

\* the image files on disk that were written by chunks that returned
FilesOfSucceededChunks ==
    {f \in ex.files :
        \E c \in DOMAIN ex.future :
           /\ ex.future[c] = "done"
           /\ \E k \in 1 .. Len(ex.chunks[c]) : f = OutputFile(ex.chunks[c][k])}

\* C6: when a page worker fails the operation returns failure and keeps no
\* partial result: remove_blank_pages has written no output document and
\* pdf_to_images leaves no page image file.
C6_AllOrNothing ==
    /\ (sc.pc = "done" /\ sc.worker_failed)
          => (sc.ret = ScError /\ sc.out = NoDoc)
    /\ (ex.pc = "done" /\ ex.worker_failed)
          => (ex.ret = ExError /\ FilesOfSucceededChunks = {})

\* C14: a readable source with zero pages is an input error of both page
\* operations: the caller gets a failure and nothing is written.
C14_ZeroPagesIsInputError ==
    /\ (sc.pc = "done" /\ sc.readable /\ Len(sc.pages) = 0)
          => (sc.ret = ScError /\ sc.out = NoDoc)
    /\ (ex.pc = "done" /\ ex.readable /\ ex.page_count = 0)
          => (ex.ret = ExError /\ ex.files = {})

\* C16: no document handle is used by two processes: the coordinator has
\* closed its handle before any worker is dispatched, every worker reads
\* the source only through the handle it opened itself, and the workers
\* write nothing but the page image files (never the source).
C16_NoHandleSharing ==
    /\ sc.pc # "idle" =>
          /\ sc.pc \in {"start", "opened"} => sc.future = <<>>
          /\ sc.pc \in {"collect", "shutdown"} => ~sc.doc_open
          /\ Running(sc.future) # {} => (~sc.doc_open /\ sc.out = NoDoc)
          /\ \A u \in sc.uses :
                /\ u.handle = u.worker
                /\ sc.handle[u.worker] \in {"open", "closed"}
    /\ ex.pc # "idle" =>
          /\ ex.pc \in {"start", "opened"} => ex.future = <<>>
          /\ ex.pc \in {"collect", "shutdown"} => ~ex.doc_open
          /\ Running(ex.future) # {} => ~ex.doc_open
          /\ \A u \in ex.uses :
                /\ u.handle = u.worker
                /\ ex.handle[u.worker] \in {"open", "closed"}
          /\ ex.files \subseteq
                {OutputFile(page_num) : page_num \in 0 .. ex.page_count - 1}

\* two chunk workers run at the same time, each has read a page through
\* its own handle, and the coordinator's handle is closed
C16_Witness ==
    /\ ex.pc = "collect"
    /\ ~ex.doc_open
    /\ Cardinality(Running(ex.future)) = 2
    /\ \A c \in Running(ex.future) :
          /\ ex.handle[c] = "open"
          /\ [worker |-> c, handle |-> c] \in ex.uses

\* every chunk is a run of consecutive page indices
ChunksContiguous ==
    \A c \in 1 .. Len(ex.chunks) :
       \A k \in 1 .. Len(ex.chunks[c]) - 1 :
          ex.chunks[c][k + 1] = ex.chunks[c][k] + 1

\* C17 as stated: when page_count >= worker_count the pages are split into
\* exactly worker_count contiguous chunks, never more chunks than workers.
C17_ExactlyWorkerCountChunks ==
    (ChunksBuilt /\ ex.page_count >= ex.cpu_count)
        => /\ ChunksContiguous
           /\ Len(ex.chunks) = ex.cpu_count

\* C17 as amended: when page_count >= worker_count the pages are split into
\* contiguous chunks of page_count div worker_count pages each, the
\* remaining pages (fewer than a chunk) forming one more chunk at the end:
\* ceil(page_count / chunk size) chunks, at least worker_count of them and
\* more than worker_count when the division leaves a remainder.
C17_ChunksOfFloorSize ==
    (ChunksBuilt /\ ex.page_count >= ex.cpu_count)
        => LET size == ex.page_count \div ex.cpu_count
               n == Len(ex.chunks)
           IN /\ ChunksContiguous
              /\ n = (ex.page_count + size - 1) \div size
              /\ n >= ex.cpu_count
              /\ (ex.page_count % ex.cpu_count # 0) => n > ex.cpu_count
              /\ \A c \in 1 .. n :
                    /\ ex.chunks[c][1] = (c - 1) * size
                    /\ Len(ex.chunks[c]) =
                          IF c < n THEN size
                          ELSE ex.page_count - (n - 1) * size
              /\ Len(ex.chunks[n]) >= 1
              /\ Len(ex.chunks[n]) <= size

\* five pages on two cores: chunks [0,1], [2,3] and [4]
C17_Witness ==
    /\ ChunksBuilt
    /\ ex.page_count = 5
    /\ ex.cpu_count = 2
    /\ Len(ex.chunks) = 3
    /\ ex.chunks[3] = <<4>>

\* C24: page i is written to the file numbered i + 1; distinct pages go to
\* distinct files, no file is written twice or by two workers under any
\* interleaving, and a successful run leaves exactly one file per page.
C24_OneFilePerPage ==
    ex.pc # "idle" =>
       /\ \A w \in ex.writes : w.file = w.page + 1
       /\ \A w1, w2 \in ex.writes :
             w1.file = w2.file => (w1.worker = w2.worker /\ w1.page = w2.page)
       /\ (ex.pc = "done" /\ ex.ret = ExSuccess)
             => /\ ex.files = {i + 1 : i \in 0 .. ex.page_count - 1}
                /\ Cardinality(ex.writes) = ex.page_count

\* five pages written by three chunks, two of which ran at the same time
C24_Witness ==
    /\ ex.pc = "done"
    /\ ex.ret = ExSuccess
    /\ ex.page_count = 5
    /\ ex.cpu_count = 2
    /\ Cardinality({w.worker : w \in ex.writes}) = 3
    /\ Cardinality(ex.files) = 5

\* the pages of the chunks in S
RECURSIVE PagesOfChunks(_)
PagesOfChunks(S) ==
    IF S = {} THEN 0
    ELSE LET c == CHOOSE x \in S : TRUE
         IN Len(ex.chunks[c]) + PagesOfChunks(S \ {c})

\* C25: the progress counter advances by the page count of each finished
\* chunk, never exceeds page_count, and equals page_count when the
\* operation completes successfully, whatever the order of completion.
C25_ProgressCountsPages ==
    ex.pc # "idle" =>
       /\ ex.progress = PagesOfChunks(ex.consumed)
       /\ ex.completed_pages = ex.progress
       /\ ex.progress <= ex.page_count
       /\ (ex.pc = "done" /\ ex.ret = ExSuccess)
             => ex.progress = ex.page_count

\* the last chunk was collected before the first: progress went 1, then 3
C25_Witness ==
    /\ ex.pc = "collect"
    /\ ex.page_count = 5
    /\ Len(ex.chunks) = 3
    /\ ex.consumed = {1, 3}
    /\ ex.progress = 3

(***************************************************************************)
(* The pixel loop of _scan_page_brightness (engine/academic.py).           *)
(*                                                                         *)
(* px.samples holds the pixels of the pixmap that the stride of the loop   *)
(* visits (every 10th pixel, 3 bytes each), as <<r, g, b>>; the threshold  *)
(* is in percent.                                                          *)
(***************************************************************************)
\* channel values on both sides of the brightness level
ChannelValues == {240, 241}

Pixels == ChannelValues \X ChannelValues \X ChannelValues

\* largest number of pixels the loop samples
MaxSamples == 3

SampleSeqs == UNION {[1 .. n -> Pixels] : n \in 0 .. MaxSamples}

\* whiteness thresholds, in percent (the default is 0.98)
PxThresholds == {50, 98}

BrightPixel_Inclusive(pixel) ==
    pixel[1] >= 240 /\ pixel[2] >= 240 /\ pixel[3] >= 240

\* img_data[i] > 240 and img_data[i+1] > 240 and img_data[i+2] > 240
BrightPixel(pixel) ==
    pixel[1] > 240 /\ pixel[2] > 240 /\ pixel[3] > 240

pxInit ==
    px \in [pc : {"loop"},
            samples : SampleSeqs,
            threshold : PxThresholds,
            i : {0},
            bright_pixels : {0},
            sampled_pixels : {0},
            ret : {NoRet}]

\* lines 48-52: one iteration of `for i in range(0, len(img_data), step)`
scan_pixel ==
    /\ px.pc = "loop"
    /\ px.i < Len(px.samples)
    /\ px' = [px EXCEPT
          !.i = @ + 1,
          !.bright_pixels = IF BrightPixel(px.samples[px.i + 1])
                            THEN @ + 1 ELSE @,
          !.sampled_pixels = @ + 1]
    /\ UNCHANGED <<cp, rz, sc, ex, bt, cl, mp>>

\* lines 54-59: the loop is over; doc.close() and the classification
scan_return ==
    /\ px.pc = "loop"
    /\ px.i = Len(px.samples)
    /\ px' = [px EXCEPT
          !.pc = "done",
          !.ret = ScanPageBrightness([sampled |-> px.sampled_pixels,
                                      bright |-> px.bright_pixels],
                                     px.threshold)]
    /\ UNCHANGED <<cp, rz, sc, ex, bt, cl, mp>>

InitBrightness ==
    pxInit /\ cpIdle /\ rzIdle /\ scIdle /\ exIdle
           /\ btIdle /\ clIdle /\ mpIdle

NextBrightness ==
    \/ scan_pixel
    \/ scan_return

SpecBrightness == InitBrightness /\ [][NextBrightness]_vars

\* the sampled pixels whose three channels all exceed 240
AllChannelsAbove240 ==
    {k \in 1 .. Len(px.samples) :
        \A c \in 1 .. 3 : px.samples[k][c] > 240}

\* C23: a page is classified blank exactly when at least one pixel was
\* sampled and the fraction of sampled pixels whose three channels all
\* exceed 240 is at least the threshold; with no sampled pixel the page is
\* classified not blank.
C23_BlankIffBrightFractionAtLeastThreshold ==
    px.pc = "done"
        => /\ px.ret = (/\ Len(px.samples) > 0
                        /\ Cardinality(AllChannelsAbove240) * 100
                              >= px.threshold * Len(px.samples))
           /\ Len(px.samples) = 0 => px.ret = FALSE

\* one of two sampled pixels is bright: exactly the 50% threshold, blank
C23_Witness ==
    /\ px.pc = "done"
    /\ px.threshold = 50
    /\ Len(px.samples) = 2
    /\ Cardinality(AllChannelsAbove240) = 1
    /\ px.ret = TRUE

(***************************************************************************)
(* batch_image_resize and _process_single_image                            *)
(* (engine/image_processor.py).                                            *)
(*                                                                         *)
(* An image file is its stem and its extension; the tasks are the files    *)
(* the globs found, *.jpg before *.png.  resize_image catches every        *)
(* exception, so a task always returns a (success, message) pair; a task   *)
(* on an unreadable image writes nothing.                                  *)
(***************************************************************************)
ImageFiles == [stem : {"a", "b"}, ext : {"jpg", "png"}]

\* largest number of images in the input directory
MaxImages == 3

\* the lists the globs can build: each file once, *.jpg before *.png
ImageLists ==
    {l \in UNION {[1 .. n -> ImageFiles] : n \in 0 .. MaxImages} :
        /\ \A j, k \in DOMAIN l : j # k => l[j] # l[k]
        /\ \A j, k \in DOMAIN l :
              (l[j].ext = "jpg" /\ l[k].ext = "png") => j < k}

\* output_format.lower()
Lower(output_format) == IF output_format = "PNG" THEN "png" ELSE "jpeg"

\* output_path = output_dir / f"{img_file.stem}.{output_format.lower()}"
OutputPath(img_file, output_format) ==
    [name |-> <<img_file.stem>>, ext |-> Lower(output_format)]

BtSuccess == <<TRUE, "None">>

BtError == <<FALSE, "No images found">>

\* the file at path after a worker has written the result of task there
WriteFile(out, path, task) ==
    [x \in DOMAIN out \cup {path} |-> IF x = path THEN task ELSE out[x]]

btInit ==
    \E l \in ImageLists :
       bt \in [pc : {"start"},
               image_files : {l},
               unreadable : {u \in SUBSET DOMAIN l : Cardinality(u) <= 1},
               output_format : {"JPEG", "PNG"},
               cpu_count : 1 .. MaxCores,
               future : {<<>>},
               results : {<<>>},
               out : {<<>>},
               writes : {{}},
               processed : {0},
               failed : {0},
               log : {{}},
               ret : {NoRet}]

\* lines 191-221: the globs, the empty-directory return, mkdir, the tasks
\* and executor.map
batch_image_resize_start ==
    /\ bt.pc = "start"
    /\ IF bt.image_files = <<>>
       THEN bt' = [bt EXCEPT !.pc = "done", !.ret = BtError,
                             !.log = @ \cup {"error"}]
       ELSE bt' = [bt EXCEPT
               !.pc = "collect",
               !.future = [t \in DOMAIN bt.image_files |-> "pending"]]
    /\ UNCHANGED <<cp, rz, sc, ex, px, cl, mp>>

\* a pool process takes the next task
batch_worker_start ==
    /\ bt.pc = "collect"
    /\ Pending(bt.future) # {}
    /\ Cardinality(Running(bt.future)) < bt.cpu_count
    /\ bt' = [bt EXCEPT !.future[NextPending(bt.future)] = "running"]
    /\ UNCHANGED <<cp, rz, sc, ex, px, cl, mp>>

\* lines 173-179: _process_single_image: resize_image writes output_path
\* and returns (True, None), or fails and returns (False, message)
batch_worker_finish ==
    /\ bt.pc = "collect"
    /\ \E t \in Running(bt.future) :
         LET path == OutputPath(bt.image_files[t], bt.output_format)
         IN IF t \in bt.unreadable
            THEN bt' = [bt EXCEPT !.future[t] = "failed"]
            ELSE bt' = [bt EXCEPT
                    !.future[t] = "done",
                    !.out = WriteFile(@, path, t),
                    !.writes = @ \cup {[path |-> path, task |-> t]}]
    /\ UNCHANGED <<cp, rz, sc, ex, px, cl, mp>>

\* lines 221-228: list(executor.map(...)) takes the results in task order
\* and counts them
batch_image_resize_collect ==
    /\ bt.pc = "collect"
    /\ LET t == Len(bt.results) + 1
       IN /\ t \in DOMAIN bt.future
          /\ bt.future[t] \in Finished
          /\ bt' = [bt EXCEPT
                !.results = Append(@, bt.future[t] = "done"),
                !.processed = IF bt.future[t] = "done" THEN @ + 1 ELSE @,
                !.failed = IF bt.future[t] = "done" THEN @ ELSE @ + 1]
    /\ UNCHANGED <<cp, rz, sc, ex, px, cl, mp>>

\* lines 230-237: the summary and `return True, None`
batch_image_resize_finish ==
    /\ bt.pc = "collect"
    /\ Len(bt.results) = Len(bt.image_files)
    /\ bt' = [bt EXCEPT
          !.pc = "done",
          !.log = @ \cup {IF bt.failed = 0 THEN "complete"
                          ELSE "complete_with_failures"},
          !.ret = BtSuccess]
    /\ UNCHANGED <<cp, rz, sc, ex, px, cl, mp>>

InitBatch ==
    btInit /\ cpIdle /\ rzIdle /\ scIdle /\ exIdle
           /\ pxIdle /\ clIdle /\ mpIdle

NextBatch ==
    \/ batch_image_resize_start
    \/ batch_worker_start
    \/ batch_worker_finish
    \/ batch_image_resize_collect
    \/ batch_image_resize_finish

SpecBatch == InitBatch /\ [][NextBatch]_vars

\* C27: every input image of a batch is written to its own output file: no
\* two tasks write the same output path, and when the batch has returned
\* the file of every task that succeeded holds that task's result.
C27_OwnOutputFilePerInput ==
    /\ \A w1, w2 \in bt.writes : w1.path = w2.path => w1.task = w2.task
    /\ bt.pc = "done" =>
          \A w \in bt.writes : bt.out[w.path] = w.task

(***************************************************************************)
(* The `compress` command of the CLI (pdf_wizard/cli.py) and               *)
(* Controller.compress_pdf (pdf_wizard/controller.py).                     *)
(*                                                                         *)
(* A target-size argument is a number part, which float() accepts or not,  *)
(* and a unit suffix in upper case; sizes are in KB.  cl.engine is the     *)
(* pair compressor.compress_pdf returns for the input.                     *)
(***************************************************************************)
SizeStrings ==
    [numeric : BOOLEAN, value : {2, 500}, unit : {"", "MB", "KB", "GB", "TB"}]

\* utils.parse_size_string: a bare number is MB; MB, KB and GB suffixes;
\* anything else, or a number part float() rejects, raises ValueError
ParseSizeString(size_str) ==
    IF ~size_str.numeric THEN [ok |-> FALSE, kb |-> 0]
    ELSE CASE size_str.unit \in {"", "MB"} ->
                 [ok |-> TRUE, kb |-> size_str.value * 1024]
           [] size_str.unit = "KB" -> [ok |-> TRUE, kb |-> size_str.value]
           [] size_str.unit = "GB" ->
                 [ok |-> TRUE, kb |-> size_str.value * 1024 * 1024]
           [] OTHER -> [ok |-> FALSE, kb |-> 0]

\* utils.validate_file_exists(input_file, '.pdf')
ValidateFileExists(file) ==
    file.exists /\ file.is_file /\ file.suffix \in {".pdf", ".PDF"}

clInit ==
    cl \in [pc : {"invoke"},
            input_file : [exists : BOOLEAN, is_file : BOOLEAN,
                          suffix : {".pdf", ".PDF", ".txt"}],
            quality : {"low", "medium", "high", "ultra"},
            target_size : SizeStrings,
            engine : {RetSuccess, RetError},
            size_kb : {0},
            engine_called : {FALSE},
            controller_ret : {FALSE},
            controller_called : {FALSE},
            stderr : {{}},
            exit_status : {0}]

\* lines 99-106: click checks the arguments before the command body runs:
\* the input path must exist and the quality must be one of the choices
cli_parse ==
    /\ cl.pc = "invoke"
    /\ IF cl.input_file.exists /\ cl.quality \in {"low", "medium", "high"}
       THEN cl' = [cl EXCEPT !.pc = "body"]
       ELSE cl' = [cl EXCEPT !.pc = "exited", !.exit_status = 2,
                             !.stderr = @ \cup {"usage"}]
    /\ UNCHANGED <<cp, rz, sc, ex, px, bt, mp>>

\* lines 115-120: size_mb = parse_size_string(target_size), or the
\* ValueError branch: echo and sys.exit(1)
cli_compress_size ==
    /\ cl.pc = "body"
    /\ LET size == ParseSizeString(cl.target_size)
       IN IF size.ok
          THEN cl' = [cl EXCEPT !.pc = "controller", !.size_kb = size.kb]
          ELSE cl' = [cl EXCEPT !.pc = "exited", !.exit_status = 1,
                                !.stderr = @ \cup {"error"}]
    /\ UNCHANGED <<cp, rz, sc, ex, px, bt, mp>>

\* controller.py lines 83-97: validate the path, call the engine and
\* return its success flag; any exception is logged and gives False
controller_compress_pdf ==
    /\ cl.pc = "controller"
    /\ IF ValidateFileExists(cl.input_file)
       THEN cl' = [cl EXCEPT !.pc = "return",
                             !.engine_called = TRUE,
                             !.controller_called = TRUE,
                             !.controller_ret = cl.engine[1]]
       ELSE cl' = [cl EXCEPT !.pc = "return",
                             !.controller_called = TRUE,
                             !.controller_ret = FALSE]
    /\ UNCHANGED <<cp, rz, sc, ex, px, bt, mp>>

\* line 117: the value Controller.compress_pdf returns is dropped; the
\* command body ends and click exits the process with status 0
cli_compress_return ==
    /\ cl.pc = "return"
    /\ cl' = [cl EXCEPT !.pc = "exited", !.exit_status = 0]
    /\ UNCHANGED <<cp, rz, sc, ex, px, bt, mp>>

InitCli ==
    clInit /\ cpIdle /\ rzIdle /\ scIdle /\ exIdle
           /\ pxIdle /\ btIdle /\ mpIdle

NextCli ==
    \/ cli_parse
    \/ cli_compress_size
    \/ controller_compress_pdf
    \/ cli_compress_return

SpecCli == InitCli /\ [][NextCli]_vars

\* C29: the command exits with status 0 only if its operation succeeded:
\* when Controller.compress_pdf returns False the exit status is not 0.
C29_ExitZeroOnlyOnSuccess ==
    cl.pc = "exited"
        => /\ cl.exit_status = 0 => (cl.controller_called /\ cl.controller_ret)
           /\ (cl.controller_called /\ ~cl.controller_ret)
                 => cl.exit_status # 0

(***************************************************************************)
(* The metadata panel of the GUI (gui/panels/metadata_panel.py).           *)
(*                                                                         *)
(* Selecting a file stores its path in self.input_file and starts a        *)
(* thread running _view_metadata.  The thread reads self.input_file when   *)
(* it runs, computes the text and hands _display_metadata to the Tk main   *)
(* loop with after(0, ...); the main loop runs the queued callbacks in the *)
(* order they were queued.  Threads run at any speed.                      *)
(***************************************************************************)
MaxSelections == 3

PanelFiles == {"a.pdf", "b.pdf", "notes.txt"}

IsPdfName(file) == file \in {"a.pdf", "b.pdf"}

\* Controller.view_metadata: the formatted metadata of the file; the two
\* documents carry different metadata
ViewMetadata(file) == <<"Title", file>>

mpInit ==
    mp = [input_file |-> "",
          status_label |-> "",
          threads |-> <<>>,
          after |-> <<>>,
          info_textbox |-> <<>>,
          displays |-> 0]

\* browse_file lines 108-113 and the PDF branch of drop_file lines 41-44
select_file ==
    /\ Len(mp.threads) < MaxSelections
    /\ \E file \in {f \in PanelFiles : IsPdfName(f)} :
          mp' = [mp EXCEPT !.input_file = file,
                           !.status_label = "Selected",
                           !.threads = Append(@, [pc |-> "started",
                                                  info |-> <<>>])]
    /\ UNCHANGED <<cp, rz, sc, ex, px, bt, cl>>

\* drop_file lines 45-46: a dropped file that is not a PDF only changes
\* the status label
drop_file_rejected ==
    /\ \E file \in {f \in PanelFiles : ~IsPdfName(f)} :
          mp' = [mp EXCEPT !.status_label = "Please drop a PDF file"]
    /\ UNCHANGED <<cp, rz, sc, ex, px, bt, cl>>

\* _view_metadata line 117: the thread reads self.input_file as it is now
view_thread_read ==
    /\ \E t \in 1..Len(mp.threads) :
          /\ mp.threads[t].pc = "started"
          /\ mp' = [mp EXCEPT !.threads[t] =
                        [pc |-> "read", info |-> ViewMetadata(mp.input_file)]]
    /\ UNCHANGED <<cp, rz, sc, ex, px, bt, cl>>

\* _view_metadata line 118: self.after(0, self._display_metadata, info)
view_thread_post ==
    /\ \E t \in 1..Len(mp.threads) :
          /\ mp.threads[t].pc = "read"
          /\ mp' = [mp EXCEPT !.threads[t].pc = "posted",
                              !.after = Append(@, mp.threads[t].info)]
    /\ UNCHANGED <<cp, rz, sc, ex, px, bt, cl>>

\* _display_metadata lines 122-127, run by the main loop for the oldest
\* queued callback: the text box is replaced by the callback's text
display_metadata ==
    /\ mp.after # <<>>
    /\ mp' = [mp EXCEPT !.info_textbox = Head(mp.after),
                        !.after = Tail(@),
                        !.displays = @ + 1]
    /\ UNCHANGED <<cp, rz, sc, ex, px, bt, cl>>

InitPanel ==
    mpInit /\ cpIdle /\ rzIdle /\ scIdle /\ exIdle
           /\ pxIdle /\ btIdle /\ clIdle

NextPanel ==
    \/ select_file
    \/ drop_file_rejected
    \/ view_thread_read
    \/ view_thread_post
    \/ display_metadata

SpecPanel == InitPanel /\ [][NextPanel]_vars

\* every started thread has queued its callback and the main loop has run
\* every queued callback
PanelSettled ==
    /\ mp.threads # <<>>
    /\ \A t \in 1..Len(mp.threads) : mp.threads[t].pc = "posted"
    /\ mp.after = <<>>

\* C30: after several selections in quick succession, once every view
\* thread has finished and every callback has run, the text box shows the
\* metadata of the most recently selected file.
C30_ShowsLatestSelection ==
    (mp.input_file \in PanelFiles /\ PanelSettled)
        => mp.info_textbox = ViewMetadata(mp.input_file)

=============================================================================
